---- MODULE Spec2Model ----
(***************************************************************************)
(* The knowledge-fragment economy of moltmud: the Database class of        *)
(* MINIMAL_MUD_SERVER.py over its single sqlite3 connection.               *)
(*                                                                         *)
(* The database file outlives the server process: Database.__init__ opens  *)
(* whatever db_path holds (every table is CREATE TABLE IF NOT EXISTS, the  *)
(* seed rows are INSERT OR IGNORE), so the rows of the three tables and    *)
(* the presence of the columns the statements name but _init_schema does   *)
(* not create are inputs, drawn in Init from the rows the schema admits.   *)
(*                                                                         *)
(* The request handlers are coroutines of one event loop and the Database  *)
(* methods contain no await: each method call is one atomic step.          *)
(*                                                                         *)
(* fragment_freshness.py adds the freshness of a fragment: FreshnessService *)
(* works on the same connection and the same knowledge_fragments rows, and  *)
(* its methods contain no await either.  Scores are counted in hundredths   *)
(* (1.0 is Full), time in whole hours, decay rates in hundredths per hour.  *)
(* No module of the repository constructs a FreshnessService: Spec is the   *)
(* server as it runs, SpecFreshness the server with the service attached.   *)
(*                                                                         *)
(* BackgroundDecayTask runs the sweep in a task of the same event loop     *)
(* (SpecSweeper; SpecSweeperFair adds the loop's fairness).                *)
(* knowledge_system.py is the taxonomy of categories and rarity tiers;     *)
(* minimud_server_patch.py tells how creation uses it and                  *)
(* fragment_migration.py adds its two columns (SpecCatalog).  Rolls and    *)
(* drop rates are counted in tenths of a percent.  SpecMigration runs the  *)
(* two schema migrations over a table with any of their columns,           *)
(* SpecPartial the sweep with the calls that commit on its connection,     *)
(* SpecRates the decay over rows with a stored rate of 0.                  *)
(***************************************************************************)
EXTENDS Integers, Sequences, FiniteSets, TLC

\* ---- bounds of the model ------------------------------------------------
MaxInfluence == 2       \* largest influence balance a buyer holds in the file
MaxFragments == 1       \* rows knowledge_fragments may hold
MaxInitPurchases == 2   \* ledger rows found in the file
MaxClock == 2           \* hours the clock advances in a run
MaxTasks == 2           \* asyncio tasks one BackgroundDecayTask creates in a run

\* ---- program constants --------------------------------------------------
DefaultInfluence == 10  \* INSERT INTO agents (... influence ...) VALUES (..., 10, 1)
BaseValue == 1          \* INSERT INTO knowledge_fragments (... base_value, current_value) VALUES (..., 1, 1)
MinRating == 1          \* rating INTEGER CHECK (rating BETWEEN 1 AND 5)
MaxRating == 5

Full == 100             \* freshness 1.0:  max(0.0, min(1.0, new_score))
DEFAULT_DECAY_RATE_PER_HOUR == 5    \* 0.05
BACKGROUND_INTERVAL_MINUTES == 15
Percent == 10            \* roll = random.random() * 100: one percent, in tenths

NULL == -1              \* SQL NULL in an INTEGER column

\* rating arguments tried by callers: both ends of the CHECK range and the
\* first value outside it on either side
RatingInputs == {MinRating - 1, MinRating, MaxRating, MaxRating + 1}

VARIABLES
    agents,              \* table agents as seen by self.conn; id = index
    knowledge_fragments, \* table knowledge_fragments as seen by self.conn
    fragment_purchases,  \* table fragment_purchases as seen by self.conn
    rated_at_column,     \* fragment_purchases has a rated_at column
    disk,                \* the committed content of the three tables
    call,                \* the last method call and what it returned or raised
    now,                 \* the clock datetime.utcnow() reads, in hours
    origin,              \* history: each fragment's (freshness_score, last_decay_check)
                         \* when the run first held it (in the file, or as created)
    sweeper,             \* the BackgroundDecayTask object and the asyncio tasks it made
    columns              \* the columns knowledge_fragments has of those migrations add

vars == <<agents, knowledge_fragments, fragment_purchases, rated_at_column, disk, call,
          now, origin, sweeper, columns>>

AgentIds == 1..Len(agents)
FragmentIds == 1..Len(knowledge_fragments)
PurchaseIds == 1..Len(fragment_purchases)

\* ---- rows ---------------------------------------------------------------
\* INSERT INTO agents (agent_id, name, bio, emoji, influence, is_active)
AgentRow(agent_id, influence) == [agent_id |-> agent_id, influence |-> influence]

\* one row of knowledge_fragments (the columns the economy reads and writes)
FragmentRow(agent_id, current_value, purchase_count, total_value_earned, rating_sum, rating_count) ==
    [agent_id |-> agent_id, base_value |-> BaseValue, current_value |-> current_value,
     purchase_count |-> purchase_count, total_value_earned |-> total_value_earned,
     rating_sum |-> rating_sum, rating_count |-> rating_count]

\* The columns FreshnessService._ensure_schema expects on knowledge_fragments.
\* SQLite rejects two of its three ALTER TABLEs (DEFAULT CURRENT_TIMESTAMP on
\* a table that has rows, and DEFAULT ? with a bound parameter), so a
\* FreshnessService is only ever constructed on a file that has the columns
\* already: outside SpecMigration the rows always carry them.
FreshnessColumns(freshness_score, last_decay_check, decay_rate_per_hour) ==
    [freshness_score |-> freshness_score, last_decay_check |-> last_decay_check,
     decay_rate_per_hour |-> decay_rate_per_hour]

FreshnessColumnNames == {"freshness_score", "last_decay_check", "decay_rate_per_hour"}

\* a new row takes the columns' defaults:  freshness_score REAL DEFAULT 1.0,
\* last_decay_check TIMESTAMP DEFAULT CURRENT_TIMESTAMP,
\* decay_rate_per_hour REAL DEFAULT 0.05
DefaultFreshness(current_timestamp) ==
    FreshnessColumns(Full, current_timestamp, DEFAULT_DECAY_RATE_PER_HOUR)

\* the pair of a row that the history variable keeps
Pair(row) == <<row.freshness_score, row.last_decay_check>>

\* one row of fragment_purchases
PurchaseRow(fragment_id, buyer_id, seller_id, amount, rating) ==
    [fragment_id |-> fragment_id, buyer_id |-> buyer_id, seller_id |-> seller_id,
     influence_amount |-> amount, fragment_value_at_purchase |-> amount, rating |-> rating]

\* The columns migrate_knowledge_fragments adds to knowledge_fragments:
\* ALTER TABLE knowledge_fragments ADD COLUMN category TEXT DEFAULT 'HISTORICAL'
\* ALTER TABLE knowledge_fragments ADD COLUMN rarity TEXT DEFAULT 'COMMON'
TaxonomyColumns == {"category", "rarity"}
CategoryDefault == "HISTORICAL"
RarityDefault == "COMMON"

\* what a row holds for a column the table does not have
NoColumn == "no such column"

Taxonomy(category, rarity) == [category |-> category, rarity |-> rarity]

\* what an INSERT that names neither column leaves in them
ColumnDefaults ==
    Taxonomy(IF "category" \in columns THEN CategoryDefault ELSE NoColumn,
             IF "rarity" \in columns THEN RarityDefault ELSE NoColumn)

\* BackgroundDecayTask.__init__:  self.running = False;  self.task = None.
\* tasks lists the tasks asyncio.create_task made for this object, each by
\* where it stands: "scheduled" (in the loop's ready queue: created, or woken
\* from its sleep), "sleeping" (suspended in asyncio.sleep), "cancelling"
\* (cancel() was called on it, CancelledError not yet delivered), "cancelled",
\* "finished" (_run returned).  task is the index of self.task (0: None),
\* awaited the task a stop() in progress awaits (0: none), sleep the seconds
\* the last asyncio.sleep was given.
BackgroundDecayTask ==
    [running |-> FALSE, task |-> 0, tasks |-> <<>>, awaited |-> 0, sleep |-> 0]

\* ---- helpers ------------------------------------------------------------
SeqsUpTo(S, n) == UNION {[1..k -> S] : k \in 0..n}

RECURSIVE SumAmount(_)
SumAmount(p) == IF p = <<>> THEN 0 ELSE Head(p).influence_amount + SumAmount(Tail(p))

RECURSIVE SumRating(_)
SumRating(p) ==
    IF p = <<>> THEN 0
    ELSE (IF Head(p).rating = NULL THEN 0 ELSE Head(p).rating) + SumRating(Tail(p))

Rated(p) == SelectSeq(p, LAMBDA row : row.rating # NULL)

Call(op, f, b, r, res) ==
    [op |-> op, fragment_id |-> f, buyer_id |-> b, rating |-> r,
     result |-> res, cost |-> 0, new_influence |-> 0]

\* self.conn.commit(): what the connection sees becomes the committed state
commit(a, k, p) == disk' = [agents |-> a, knowledge_fragments |-> k, fragment_purchases |-> p]

\* ---- the state the file is opened in ------------------------------------
\* Three agents: agent 1 holds the balance every agent is created with,
\* agents 2 and 3 hold one and the same balance, any up to MaxInfluence.
InitAgentTables ==
    {<< AgentRow("a1", DefaultInfluence), AgentRow("a2", i), AgentRow("a3", i) >> :
        i \in 0..MaxInfluence}

\* Ledger rows the file may hold for fragment 1 (owned by agent 1), each
\* bought at the base price: by agent 2, unrated or rated 3; by agent 3,
\* unrated.
InitPurchaseRows ==
    {PurchaseRow(1, 2, 1, BaseValue, NULL), PurchaseRow(1, 2, 1, BaseValue, 3),
     PurchaseRow(1, 3, 1, BaseValue, NULL)}

\* The fragment row that agrees with its ledger rows.
InitFragment(ledger) ==
    FragmentRow(1, BaseValue, Len(ledger), SumAmount(ledger), SumRating(ledger),
                Len(Rated(ledger)))

\* Either no fragment was shared yet, or fragment 1 exists with its ledger.
Init ==
    /\ agents \in InitAgentTables
    /\ \/ /\ knowledge_fragments = <<>>
          /\ fragment_purchases = <<>>
       \/ /\ fragment_purchases \in SeqsUpTo(InitPurchaseRows, MaxInitPurchases)
          /\ knowledge_fragments =
                << InitFragment(fragment_purchases) @@ DefaultFreshness(0)
                     @@ Taxonomy(CategoryDefault, RarityDefault) >>
    /\ rated_at_column \in BOOLEAN
    /\ disk = [agents |-> agents, knowledge_fragments |-> knowledge_fragments,
               fragment_purchases |-> fragment_purchases]
    /\ call = Call("__init__", 0, 0, NULL, "None")
    /\ now = 0
    /\ origin = [f \in FragmentIds |-> Pair(knowledge_fragments[f])]
    /\ sweeper = BackgroundDecayTask
    /\ columns = FreshnessColumnNames \cup TaxonomyColumns

\* ---- Database.create_fragment -------------------------------------------
\* INSERT ... (agent_id, 1, content, topics, 1, 1); the other counters take
\* their column DEFAULT 0, the freshness columns theirs; commit; return
\* cursor.lastrowid.
create_fragment(agent_id) ==
    /\ Len(knowledge_fragments) < MaxFragments
    /\ knowledge_fragments' =
         Append(knowledge_fragments,
                FragmentRow(agent_id, BaseValue, 0, 0, 0, 0) @@ DefaultFreshness(now)
                    @@ ColumnDefaults)
    /\ commit(agents, knowledge_fragments', fragment_purchases)
    /\ call' = Call("create_fragment", Len(knowledge_fragments) + 1, agent_id, NULL, "lastrowid")
    /\ origin' = Append(origin, <<Full, now>>)
    /\ UNCHANGED <<agents, fragment_purchases, rated_at_column, now, sweeper, columns>>

\* ---- Database.purchase_fragment -----------------------------------------
\* The first statement is  SELECT f.*, a_influence, a_seller_id FROM
\* knowledge_fragments f JOIN agents a_influence ON ... WHERE f.id = ? FOR UPDATE.
\* SQLite has no FOR UPDATE clause: sqlite3 rejects the statement when it
\* prepares it (OperationalError: near "FOR": syntax error), whatever the
\* arguments and the rows are.  Nothing catches the exception, so none of
\* the later statements (the fragment-not-found, own-fragment and
\* insufficient-influence returns, the two UPDATEs of agents, the UPDATE of
\* the fragment, the INSERT and the commit) is ever executed.
SelectFragmentForUpdate(fragment_id) == "OperationalError"

purchase_fragment(fragment_id, buyer_id) ==
    /\ SelectFragmentForUpdate(fragment_id) = "OperationalError"
    /\ call' = Call("purchase_fragment", fragment_id, buyer_id, NULL, "OperationalError")
    /\ UNCHANGED <<agents, knowledge_fragments, fragment_purchases, rated_at_column, disk,
                   now, origin, sweeper, columns>>

\* ---- Database.rate_fragment ---------------------------------------------
\* the same query without its  AND rating IS NULL
AnyPurchaseExists(fragment_id, buyer_id) ==
    \E i \in PurchaseIds :
        /\ fragment_purchases[i].fragment_id = fragment_id
        /\ fragment_purchases[i].buyer_id = buyer_id

\* SELECT * FROM fragment_purchases
\*  WHERE fragment_id = ? AND buyer_id = ? AND rating IS NULL;  fetchone()
UnratedPurchaseExists(fragment_id, buyer_id) ==
    \E i \in PurchaseIds :
        /\ fragment_purchases[i].fragment_id = fragment_id
        /\ fragment_purchases[i].buyer_id = buyer_id
        /\ fragment_purchases[i].rating = NULL

\* UPDATE fragment_purchases SET rating = ?, rated_at = CURRENT_TIMESTAMP
\*  WHERE fragment_id = ? AND buyer_id = ?
UpdatePurchaseRating(fragment_id, buyer_id, rating) ==
    [i \in PurchaseIds |->
        IF /\ fragment_purchases[i].fragment_id = fragment_id
           /\ fragment_purchases[i].buyer_id = buyer_id
        THEN [fragment_purchases[i] EXCEPT !.rating = rating]
        ELSE fragment_purchases[i]]

\* UPDATE knowledge_fragments
\*  SET rating_count = rating_count + 1, rating_sum = rating_sum + ? WHERE id = ?
UpdateFragmentRating(fragment_id, rating) ==
    [f \in FragmentIds |->
        IF f = fragment_id
        THEN [knowledge_fragments[f] EXCEPT !.rating_count = @ + 1, !.rating_sum = @ + rating]
        ELSE knowledge_fragments[f]]

rate_fragment(fragment_id, buyer_id, rating) ==
    IF ~UnratedPurchaseExists(fragment_id, buyer_id)
    THEN \* return False  # No purchase found
         /\ call' = Call("rate_fragment", fragment_id, buyer_id, rating, "False")
         /\ UNCHANGED <<agents, knowledge_fragments, fragment_purchases, rated_at_column, disk,
                   now, origin, sweeper, columns>>
    ELSE IF ~rated_at_column
    THEN \* the UPDATE names a column the table lacks: sqlite3 raises
         \* OperationalError (no such column: rated_at) when it prepares it
         /\ call' = Call("rate_fragment", fragment_id, buyer_id, rating, "OperationalError")
         /\ UNCHANGED <<agents, knowledge_fragments, fragment_purchases, rated_at_column, disk,
                   now, origin, sweeper, columns>>
    ELSE IF rating \notin MinRating..MaxRating
    THEN \* CHECK (rating BETWEEN 1 AND 5) fails: sqlite3 raises IntegrityError
         \* and undoes the statement; nothing catches it
         /\ call' = Call("rate_fragment", fragment_id, buyer_id, rating, "IntegrityError")
         /\ UNCHANGED <<agents, knowledge_fragments, fragment_purchases, rated_at_column, disk,
                   now, origin, sweeper, columns>>
    ELSE /\ fragment_purchases' = UpdatePurchaseRating(fragment_id, buyer_id, rating)
         /\ knowledge_fragments' = UpdateFragmentRating(fragment_id, rating)
         /\ commit(agents, knowledge_fragments', fragment_purchases')
         /\ call' = Call("rate_fragment", fragment_id, buyer_id, rating, "True")
         /\ UNCHANGED <<agents, rated_at_column, now, origin, sweeper, columns>>

\* ---- the system ---------------------------------------------------------
\* Callers name any agent of the table and any fragment id up to the first
\* one that does not exist.
Next ==
    \/ \E a \in AgentIds : create_fragment(a)
    \/ \E f \in 1..(Len(knowledge_fragments) + 1), b \in AgentIds : purchase_fragment(f, b)
    \/ \E f \in FragmentIds, b \in AgentIds, r \in RatingInputs : rate_fragment(f, b, r)

Spec == Init /\ [][Next]_vars

\* ======================================================================
\* fragment_freshness.py
\* ======================================================================

\* what last_decay_check holds when it is neither NULL nor a timestamp the
\* code can use: a string datetime.fromisoformat rejects (ValueError), or a
\* value whose difference from utcnow() is undefined (an offset-aware
\* timestamp, a number: TypeError)
MALFORMED == -2

min(a, b) == IF a <= b THEN a ELSE b
max(a, b) == IF a >= b THEN a ELSE b

\* ---- FreshnessCalculator.calculate_current_freshness --------------------
\* the same with the decay added instead of subtracted
calculate_growing_freshness(last_check, current_time, decay_rate_per_hour, current_score) ==
    IF current_score <= 0 THEN 0
    ELSE max(0, min(Full, current_score + (current_time - last_check) * decay_rate_per_hour))

\* the same without the floor at 0.0
calculate_unfloored_freshness(last_check, current_time, decay_rate_per_hour, current_score) ==
    IF current_score <= 0 THEN 0
    ELSE min(Full, current_score - (current_time - last_check) * decay_rate_per_hour)

calculate_current_freshness(last_check, current_time, decay_rate_per_hour, current_score) ==
    IF current_score <= 0
    THEN 0
    ELSE LET hours_elapsed == current_time - last_check
             decay_amount == hours_elapsed * decay_rate_per_hour
             new_score == current_score - decay_amount
         IN  max(0, min(Full, new_score))

\* ---- what apply_decay and batch_update_freshness do with one row --------
\* if isinstance(last_check_str, str): last_check = datetime.fromisoformat(...)
\* else: last_check = last_check_str or <the current time>
Unusable(last_check_str) == last_check_str = MALFORMED

\* the elapsed time measured from hour 0, whatever the row holds
LastCheckEpoch(last_check_str, current_time) == 0

LastCheck(last_check_str, current_time) ==
    IF last_check_str = NULL THEN current_time ELSE last_check_str

\* decay_rate or FreshnessConfig.DEFAULT_DECAY_RATE_PER_HOUR
DecayRateOr(decay_rate) ==
    IF decay_rate = NULL \/ decay_rate = 0 THEN DEFAULT_DECAY_RATE_PER_HOUR ELSE decay_rate

\* current_score if current_score is not None else 1.0
ScoreOr(current_score) == IF current_score = NULL THEN Full ELSE current_score

NewScore(row, current_time) ==
    calculate_current_freshness(LastCheck(row.last_decay_check, current_time), current_time,
                                DecayRateOr(row.decay_rate_per_hour),
                                ScoreOr(row.freshness_score))

\* an UPDATE that also clears the purchase counters of the row
WriteFreshnessAndCounters(row, freshness_score, last_decay_check) ==
    [row EXCEPT !.freshness_score = freshness_score, !.last_decay_check = last_decay_check,
                !.purchase_count = 0, !.total_value_earned = 0]

\* an UPDATE that leaves last_decay_check as it was
WriteFreshnessOnly(row, freshness_score, last_decay_check) ==
    [row EXCEPT !.freshness_score = freshness_score]

\* UPDATE knowledge_fragments SET freshness_score = ?, last_decay_check = ? WHERE id = ?
WriteFreshness(row, freshness_score, last_decay_check) ==
    [row EXCEPT !.freshness_score = freshness_score, !.last_decay_check = last_decay_check]

\* what a FreshnessService call was given, read and returned
ServiceCall(op, fragment_id, refresh_amount, last_check_str, result, freshness_score, updated, fully_decayed) ==
    [op |-> op, fragment_id |-> fragment_id, refresh_amount |-> refresh_amount,
     last_check_str |-> last_check_str, result |-> result,
     freshness_score |-> freshness_score, updated |-> updated,
     fully_decayed |-> fully_decayed]

\* ---- FreshnessService.apply_decay ---------------------------------------
\* op: the method the caller called
apply_decay_as(op, fragment_id) ==
    IF fragment_id \notin FragmentIds
    THEN \* if not row: return None
         /\ call' = ServiceCall(op, fragment_id, NULL, NULL, "None", NULL, 0, 0)
         /\ UNCHANGED <<agents, knowledge_fragments, fragment_purchases, rated_at_column,
                        disk, now, origin, sweeper, columns>>
    ELSE LET row == knowledge_fragments[fragment_id]
             current_time == now
         IN  IF Unusable(row.last_decay_check)
             THEN \* the exception leaves apply_decay before its UPDATE
                  /\ call' = ServiceCall(op, fragment_id, NULL,
                                         row.last_decay_check, "ValueError", NULL, 0, 0)
                  /\ UNCHANGED <<agents, knowledge_fragments, fragment_purchases,
                                 rated_at_column, disk, now, origin, sweeper, columns>>
             ELSE LET new_score == NewScore(row, current_time)
                  IN  /\ knowledge_fragments' =
                            [knowledge_fragments EXCEPT
                                ![fragment_id] = WriteFreshness(row, new_score, current_time)]
                      /\ commit(agents, knowledge_fragments', fragment_purchases)
                      /\ call' = ServiceCall(op, fragment_id, NULL,
                                             row.last_decay_check, "dict", new_score, 0, 0)
                      /\ UNCHANGED <<agents, fragment_purchases, rated_at_column, now, origin, sweeper, columns>>

apply_decay(fragment_id) == apply_decay_as("apply_decay", fragment_id)

\* ---- FreshnessService.get_fragment_with_freshness -----------------------
\* freshness_data = self.apply_decay(fragment_id); if not freshness_data:
\* return None.  Then the row is read again (SELECT kf.*, a.name ... WHERE
\* kf.id = ?) and returned as a dict updated with freshness_data: the call
\* writes what apply_decay writes and returns None where it returns None.
get_fragment_with_freshness(fragment_id) ==
    apply_decay_as("get_fragment_with_freshness", fragment_id)

\* ---- FreshnessService.refresh_fragment ----------------------------------
\* UPDATE ... SET freshness_score = MIN(1.0, ?), last_decay_check = ? WHERE id = ?;
\* commit; return cursor.rowcount > 0
refresh_fragment(fragment_id, refresh_amount) ==
    LET current_time == now
    IN  /\ knowledge_fragments' =
             [f \in FragmentIds |->
                 IF f = fragment_id
                 THEN WriteFreshness(knowledge_fragments[f], min(Full, refresh_amount),
                                     current_time)
                 ELSE knowledge_fragments[f]]
        /\ commit(agents, knowledge_fragments', fragment_purchases)
        /\ call' = ServiceCall("refresh_fragment", fragment_id, refresh_amount, NULL,
                               IF fragment_id \in FragmentIds THEN "True" ELSE "False",
                               NULL, 0, 0)
        /\ UNCHANGED <<agents, fragment_purchases, rated_at_column, now, origin, sweeper, columns>>

\* ---- FreshnessService.batch_update_freshness ----------------------------
\* the same query without its WHERE clause
SelectEveryFragment(row) == TRUE

\* SELECT ... FROM knowledge_fragments
\*  WHERE freshness_score > 0 OR freshness_score IS NULL
SelectDecaying(row) == row.freshness_score = NULL \/ row.freshness_score > 0

\* The rows the loop reaches, in the order of their ids: the loop ends at the
\* first selected row whose timestamp raises, before that row's UPDATE.
Raising == {f \in FragmentIds : /\ SelectDecaying(knowledge_fragments[f])
                                /\ Unusable(knowledge_fragments[f].last_decay_check)}

Processed == {f \in FragmentIds : /\ SelectDecaying(knowledge_fragments[f])
                                  /\ \A g \in Raising : f < g}

batch_update_freshness ==
    LET current_time == now
        rows == Processed
        fully == {f \in rows : NewScore(knowledge_fragments[f], current_time) <= 0}
    IN  /\ knowledge_fragments' =
             [f \in FragmentIds |->
                 IF f \in rows
                 THEN WriteFreshness(knowledge_fragments[f],
                                     NewScore(knowledge_fragments[f], current_time),
                                     current_time)
                 ELSE knowledge_fragments[f]]
        /\ IF Raising = {}
           THEN \* self.db.commit() after the loop; return the counts
                /\ commit(agents, knowledge_fragments', fragment_purchases)
                /\ call' = ServiceCall("batch_update_freshness", NULL, NULL, NULL, "dict",
                                       NULL, Cardinality(rows), Cardinality(fully))
           ELSE \* the exception leaves the loop: the UPDATEs made so far stay
                \* in the connection's open transaction, uncommitted
                /\ call' = ServiceCall("batch_update_freshness", NULL, NULL, NULL,
                                       "ValueError", NULL, 0, 0)
                /\ UNCHANGED disk
        /\ UNCHANGED <<agents, fragment_purchases, rated_at_column, now, origin, columns>>

\* ---- the clock ----------------------------------------------------------
\* datetime.utcnow() returns a later hour than the last time it was read
Tick ==
    /\ now < MaxClock
    /\ now' = now + 1
    /\ UNCHANGED <<agents, knowledge_fragments, fragment_purchases, rated_at_column,
                   disk, call, origin, sweeper, columns>>

\* ---- BackgroundDecayTask ------------------------------------------------
\* Every method of FreshnessService is synchronous: a task of the event loop
\* runs from one await to the next without another task running in between.
\* _run has one await, the sleep, and stop() one, the await of the task.
Live == {"scheduled", "sleeping"}

\* start():  self.running = True;  self.task = asyncio.create_task(self._run())
start ==
    /\ Len(sweeper.tasks) < MaxTasks
    /\ sweeper' = [sweeper EXCEPT !.running = TRUE,
                                  !.tasks = Append(@, "scheduled"),
                                  !.task = Len(sweeper.tasks) + 1]
    /\ UNCHANGED <<agents, knowledge_fragments, fragment_purchases, rated_at_column,
                   disk, call, now, origin, columns>>

\* stop():  self.running = False;  if self.task: self.task.cancel(); await it.
\* A task that is done is not changed by cancel(), and awaiting it returns
\* (or raises the CancelledError that stop() swallows) at once: the call has
\* returned None.  Otherwise the call is suspended until the task is done.
stop ==
    /\ sweeper.awaited = 0
    /\ LET t == sweeper.task
           pending == t # 0 /\ sweeper.tasks[t] \in Live
       IN  /\ sweeper' = [sweeper EXCEPT
                          !.running = FALSE,
                          !.tasks = IF pending THEN [@ EXCEPT ![t] = "cancelling"] ELSE @,
                          !.awaited = IF pending THEN t ELSE 0]
           /\ call' = Call("stop", 0, 0, NULL, IF pending THEN "awaiting" ELSE "None")
    /\ UNCHANGED <<agents, knowledge_fragments, fragment_purchases, rated_at_column,
                   disk, now, origin, columns>>

\* The loop delivers CancelledError to the task where it is suspended: at
\* the sleep, or before its first step.  Nothing in _run catches it (it is
\* not an Exception), the task is done, and the stop() that awaits it
\* catches the CancelledError and returns None.
cancelled(i) ==
    /\ i \in 1..Len(sweeper.tasks)
    /\ sweeper.tasks[i] = "cancelling"
    /\ sweeper' = [sweeper EXCEPT !.tasks[i] = "cancelled",
                                  !.awaited = IF @ = i THEN 0 ELSE @]
    /\ call' = IF sweeper.awaited = i THEN Call("stop", 0, 0, NULL, "None") ELSE call
    /\ UNCHANGED <<agents, knowledge_fragments, fragment_purchases, rated_at_column,
                   disk, now, origin, columns>>

\* the timer of asyncio.sleep fires: the task is put in the ready queue
wake_up(i) ==
    /\ i \in 1..Len(sweeper.tasks)
    /\ sweeper.tasks[i] = "sleeping"
    /\ sweeper' = [sweeper EXCEPT !.tasks[i] = "scheduled"]
    /\ UNCHANGED <<agents, knowledge_fragments, fragment_purchases, rated_at_column,
                   disk, call, now, origin, columns>>

\* what batch_update_freshness raised, if it raised
Errors == {"ValueError", "DatabaseError"}

\* a loop that lets the exception of a cycle end it
AfterCycleReraising(result) == IF result \in Errors THEN "finished" ELSE "sleeping"

\* try: ... except Exception as e: logger.error(...)
\* await asyncio.sleep(FreshnessConfig.BACKGROUND_INTERVAL_MINUTES * 60)
AfterCycle(result) == "sleeping"

\* sqlite3 raises DatabaseError from the SELECT of batch_update_freshness when
\* the file cannot be read (disk I/O error, database disk image is malformed)
StorageFailure ==
    /\ call' = ServiceCall("batch_update_freshness", NULL, NULL, NULL, "DatabaseError",
                           NULL, 0, 0)
    /\ UNCHANGED <<agents, knowledge_fragments, fragment_purchases, rated_at_column,
                   disk, now, origin, columns>>

\* a loop that does not read self.running
WhileTrue == TRUE

\* while self.running:
WhileRunning == sweeper.running

\* One step of the task that runs _run, from where it was resumed to its
\* next suspension:  while self.running: try: batch_update_freshness() except
\* Exception: log;  await asyncio.sleep(...).  storage tells whether the file
\* can be read in this cycle.
_run(i, storage) ==
    /\ i \in 1..Len(sweeper.tasks)
    /\ sweeper.tasks[i] = "scheduled"
    /\ IF ~WhileRunning
       THEN /\ storage = "ok"
            /\ sweeper' = [sweeper EXCEPT !.tasks[i] = "finished"]
            /\ UNCHANGED <<agents, knowledge_fragments, fragment_purchases, rated_at_column,
                           disk, call, now, origin, columns>>
       ELSE /\ IF storage = "ok" THEN batch_update_freshness ELSE StorageFailure
            /\ sweeper' = [sweeper EXCEPT !.tasks[i] = AfterCycle(call'.result),
                                          !.sleep = BACKGROUND_INTERVAL_MINUTES * 60]

\* ---- the files FreshnessService is attached to --------------------------
\* freshness_score: unset, fully decayed, half, full
ScoreInputs == {NULL, 0, Full \div 2, Full}
\* decay_rate_per_hour: unset (the default applies) or ten times the default
RateInputs == {NULL, 10 * DEFAULT_DECAY_RATE_PER_HOUR}
\* refresh amounts callers pass: below 0.0, and above 1.0
RefreshAmounts == {0 - (Full \div 2), Full + (Full \div 2)}

FileFreshness(timestamps) ==
    {FreshnessColumns(s, w, r) : s \in ScoreInputs, w \in timestamps, r \in RateInputs}

\* The file holds the fragments of agent 1 that `file` lists the freshness
\* columns of; the first was bought once by agent 2 and is not yet rated.
InitService(files) ==
    /\ agents = << AgentRow("a1", DefaultInfluence), AgentRow("a2", MaxInfluence),
                   AgentRow("a3", MaxInfluence) >>
    /\ \E file \in files :
          /\ fragment_purchases =
                IF file = <<>> THEN <<>> ELSE << PurchaseRow(1, 2, 1, BaseValue, NULL) >>
          /\ knowledge_fragments =
                [f \in 1..Len(file) |->
                    (IF f = 1 THEN InitFragment(fragment_purchases)
                              ELSE FragmentRow(1, BaseValue, 0, 0, 0, 0)) @@ file[f]
                        @@ Taxonomy(CategoryDefault, RarityDefault)]
    /\ rated_at_column = TRUE
    /\ disk = [agents |-> agents, knowledge_fragments |-> knowledge_fragments,
               fragment_purchases |-> fragment_purchases]
    /\ call = Call("__init__", 0, 0, NULL, "None")
    /\ now = 0
    /\ origin = [f \in FragmentIds |-> Pair(knowledge_fragments[f])]
    /\ sweeper = BackgroundDecayTask
    /\ columns = FreshnessColumnNames \cup TaxonomyColumns

\* no fragment yet, or one whose timestamp the code wrote or left NULL
InitFreshness == InitService({<<>>} \cup [1..1 -> FileFreshness({NULL, 0})])

\* the server with a FreshnessService on its connection: agent 1 shares,
\* agent 2 buys and rates fragment 1, anyone reads and refreshes
NextFreshness ==
    \/ Tick
    \/ create_fragment(1)
    \/ purchase_fragment(1, 2)
    \/ \E r \in {MaxRating, MaxRating + 1} : rate_fragment(1, 2, r)
    \/ \E f \in 1..(Len(knowledge_fragments) + 1) : apply_decay(f)
    \/ \E f \in 1..(Len(knowledge_fragments) + 1), a \in RefreshAmounts : refresh_fragment(f, a)
    \/ batch_update_freshness /\ UNCHANGED sweeper

SpecFreshness == InitFreshness /\ [][NextFreshness]_vars

\* the decay alone: lazy apply_decay calls and sweeps, no refresh
NextDecay ==
    \/ Tick
    \/ \E f \in 1..(Len(knowledge_fragments) + 1) : apply_decay(f)
    \/ batch_update_freshness /\ UNCHANGED sweeper

\* no fragment, or two
InitDecay == InitService({<<>>} \cup [1..2 -> FileFreshness({NULL, 0})])

SpecDecay == InitDecay /\ [][NextDecay]_vars

\* the decay over files whose last_decay_check may also be unusable
InitMalformed == InitService([1..2 -> FileFreshness({NULL, MALFORMED, 0})])

SpecMalformed == InitMalformed /\ [][NextDecay]_vars

\* the decay over files whose decay_rate_per_hour is unset, 0.0 or ten times
\* the default, written at hour 0 at half or full freshness
RateFiles ==
    [1..2 -> {FreshnessColumns(s, 0, r) :
                 s \in {Full \div 2, Full},
                 r \in {NULL, 0, 10 * DEFAULT_DECAY_RATE_PER_HOUR}}]

InitRates == InitService(RateFiles)

SpecRates == InitRates /\ [][NextDecay]_vars

\* ---- the sweeper over a file that may hold unusable timestamps ---------
\* two fragments at full or unset freshness
SweeperFiles ==
    [1..2 -> {FreshnessColumns(s, w, DEFAULT_DECAY_RATE_PER_HOUR) :
                 s \in {NULL, Full}, w \in {MALFORMED, 0}}]

InitSweeper == InitService(SweeperFiles)

\* the same files under a sweep any caller runs and the calls that commit on
\* its connection
NextPartial ==
    \/ Tick
    \/ batch_update_freshness /\ UNCHANGED sweeper
    \/ \E f \in FragmentIds : apply_decay(f)
    \/ \E f \in FragmentIds : refresh_fragment(f, Full)
    \/ purchase_fragment(1, 2)

SpecPartial == InitSweeper /\ [][NextPartial]_vars

\* a step of task i of the event loop
TaskStep(i) ==
    \/ \E storage \in {"ok", "failed"} : _run(i, storage)
    \/ wake_up(i)
    \/ cancelled(i)

NextSweeper ==
    \/ Tick
    \/ start
    \/ stop
    \/ \E i \in 1..MaxTasks : TaskStep(i)

SpecSweeper == InitSweeper /\ [][NextSweeper]_vars

\* The event loop runs every callback of its ready queue and fires every
\* timer that is due: a step of a task that stays possible is taken.
SpecSweeperFair == SpecSweeper /\ \A i \in 1..MaxTasks : WF_vars(TaskStep(i))

\* ---- the calculator on its own ------------------------------------------
\* arguments callers pass: scores 0.0, 0.05, 0.5, 0.95 and 1.0; rates 0,
\* the default and ten times the default; both instants any hour of the
\* clock, in either order
CalcScores == {0, Full \div 20, Full \div 2, Full - (Full \div 20), Full}
CalcRates == {0, DEFAULT_DECAY_RATE_PER_HOUR, 10 * DEFAULT_DECAY_RATE_PER_HOUR}

calculate(last_check, current_time, decay_rate_per_hour, current_score) ==
    /\ call' = [op |-> "calculate_current_freshness", last_check |-> last_check,
                current_time |-> current_time, decay_rate_per_hour |-> decay_rate_per_hour,
                current_score |-> current_score,
                result |-> calculate_current_freshness(last_check, current_time,
                                                       decay_rate_per_hour, current_score)]
    /\ UNCHANGED <<agents, knowledge_fragments, fragment_purchases, rated_at_column,
                   disk, now, origin, sweeper, columns>>

InitCalc == InitService({<<>>})

NextCalc ==
    \E last_check \in 0..MaxClock, current_time \in 0..MaxClock,
       decay_rate_per_hour \in CalcRates, current_score \in CalcScores :
        calculate(last_check, current_time, decay_rate_per_hour, current_score)

SpecCalc == InitCalc /\ [][NextCalc]_vars

\* ---- FreshnessCalculator.hours_until_decay ------------------------------
\* A number of hours is kept as the quotient num / den it is computed as:
\* 0.0 is 0 / 1 and float('inf') is 1 / 0.
Hours(num, den) == [num |-> num, den |-> den]
INF == Hours(1, 0)

\* the same with the score tested before the rate
hours_until_decay_score_first(current_score, decay_rate_per_hour, target_score) ==
    IF current_score - target_score <= 0 THEN Hours(0, 1)
    ELSE IF decay_rate_per_hour <= 0 THEN INF
    ELSE Hours(current_score - target_score, decay_rate_per_hour)

hours_until_decay(current_score, decay_rate_per_hour, target_score) ==
    IF decay_rate_per_hour <= 0
    THEN INF
    ELSE LET score_to_lose == current_score - target_score
         IN  IF score_to_lose <= 0
             THEN Hours(0, 1)
             ELSE Hours(score_to_lose, decay_rate_per_hour)

\* arguments callers pass: scores and targets from 0.0 to 1.0 in steps of
\* 0.05 and 0.5; rates below 0, 0, the default, 0.07 and ten times the default
HoursScores == {(Full \div 20) * k : k \in 0..20}
HoursTargets == {0, Full \div 2, Full}
HoursRates == {0 - DEFAULT_DECAY_RATE_PER_HOUR, 0, DEFAULT_DECAY_RATE_PER_HOUR,
               DEFAULT_DECAY_RATE_PER_HOUR + 2, 10 * DEFAULT_DECAY_RATE_PER_HOUR}

hours(current_score, decay_rate_per_hour, target_score) ==
    /\ call' = [op |-> "hours_until_decay", current_score |-> current_score,
                decay_rate_per_hour |-> decay_rate_per_hour,
                target_score |-> target_score,
                result |-> hours_until_decay(current_score, decay_rate_per_hour,
                                             target_score)]
    /\ UNCHANGED <<agents, knowledge_fragments, fragment_purchases, rated_at_column,
                   disk, now, origin, sweeper, columns>>

NextHours ==
    \E current_score \in HoursScores, decay_rate_per_hour \in HoursRates,
       target_score \in HoursTargets :
        hours(current_score, decay_rate_per_hour, target_score)

SpecHours == InitCalc /\ [][NextHours]_vars

\* ======================================================================
\* knowledge_system.py
\* ======================================================================

\* class Rarity(Enum): the members in the order a loop over the class
\* visits them
Rarity == << "COMMON", "UNCOMMON", "RARE", "EPIC", "LEGENDARY" >>

\* Rolls and drop rates are kept in tenths of a percent, multipliers in tenths.
drop_rate_percent(rarity) ==
    CASE rarity = "COMMON" -> 50 * Percent
      [] rarity = "UNCOMMON" -> 30 * Percent
      [] rarity = "RARE" -> 15 * Percent
      [] rarity = "EPIC" -> 4 * Percent
      [] rarity = "LEGENDARY" -> 1 * Percent

value_multiplier(rarity) ==
    CASE rarity = "COMMON" -> 10
      [] rarity = "UNCOMMON" -> 15
      [] rarity = "RARE" -> 25
      [] rarity = "EPIC" -> 50
      [] rarity = "LEGENDARY" -> 100

\* ---- get_random_rarity --------------------------------------------------
\* the same loop with  if roll < cumulative
RECURSIVE WalkBelow(_, _, _)
WalkBelow(roll, k, cumulative) ==
    IF k > Len(Rarity)
    THEN [rarity |-> "COMMON", exit |-> "fallback"]
    ELSE LET next == cumulative + drop_rate_percent(Rarity[k])
         IN  IF roll < next
             THEN [rarity |-> Rarity[k], exit |-> "loop"]
             ELSE WalkBelow(roll, k + 1, next)

get_random_rarity_below(roll) == WalkBelow(roll, 1, 0)

\* for rarity in Rarity: cumulative += rarity.value.drop_rate_percent;
\*     if roll <= cumulative: return rarity
\* return Rarity.COMMON
\* The result tells the member returned and which return returned it.
RECURSIVE Walk(_, _, _)
Walk(roll, k, cumulative) ==
    IF k > Len(Rarity)
    THEN [rarity |-> "COMMON", exit |-> "fallback"]
    ELSE LET next == cumulative + drop_rate_percent(Rarity[k])
         IN  IF roll <= next
             THEN [rarity |-> Rarity[k], exit |-> "loop"]
             ELSE Walk(roll, k + 1, next)

get_random_rarity(roll) == Walk(roll, 1, 0)

\* roll = random.random() * 100:  0.0 <= roll < 100.0
Rolls == 0..(100 * Percent - 1)

sample(roll) ==
    /\ call' = [op |-> "get_random_rarity", roll |-> roll,
                result |-> get_random_rarity(roll).rarity,
                exit |-> get_random_rarity(roll).exit]
    /\ UNCHANGED <<agents, knowledge_fragments, fragment_purchases, rated_at_column,
                   disk, now, origin, sweeper, columns>>

NextRarity == \E roll \in Rolls : sample(roll)

SpecRarity == InitCalc /\ [][NextRarity]_vars

\* class Category(Enum): the names of the members
Category == {"HISTORICAL", "SCIENTIFIC", "CULTURAL", "TECHNICAL", "BIOGRAPHICAL"}

\* str.upper() on the strings callers pass
upper(str) ==
    CASE str = "scientific" -> "SCIENTIFIC"
      [] str = "Technical" -> "TECHNICAL"
      [] OTHER -> str

\* if not category_str: return None
\* try: return Category[category_str.upper()]  except KeyError: return None
validate_category(category_str) ==
    IF category_str = "" THEN "None"
    ELSE IF upper(category_str) \in Category THEN upper(category_str) ELSE "None"

\* the same with the multiplier read as a tenth of what it is
calculate_fragment_value_tenths(base_value, rarity) ==
    (base_value * value_multiplier(rarity)) \div 100

\* int(base_value * rarity.value.value_multiplier)
calculate_fragment_value(base_value, rarity) ==
    (base_value * value_multiplier(rarity)) \div 10

\* ---- fragment creation as minimud_server_patch.py integrates it ---------
\* category = validate_category(params.get('category')) or Category.HISTORICAL
\* rarity = get_random_rarity()
\* INSERT INTO knowledge_fragments (agent_id, room_id, content, topics,
\*     category, rarity, base_value, current_value) VALUES (..., category.name,
\*     rarity.name, base_value, calculate_fragment_value(base_value, rarity))
\* in place of the INSERT of Database.create_fragment, with its base_value 1.
create_fragment_with_rarity(agent_id, category_str, roll) ==
    /\ Len(knowledge_fragments) < MaxFragments
    /\ IF ~(TaxonomyColumns \subseteq columns)
       THEN \* the INSERT names a column the table lacks: OperationalError
            /\ call' = Call("create_fragment", 0, agent_id, NULL, "OperationalError")
            /\ UNCHANGED <<agents, knowledge_fragments, fragment_purchases, rated_at_column,
                           disk, now, origin, sweeper, columns>>
       ELSE LET category == IF validate_category(category_str) = "None"
                            THEN CategoryDefault
                            ELSE validate_category(category_str)
                rarity == get_random_rarity(roll).rarity
            IN  /\ knowledge_fragments' =
                     Append(knowledge_fragments,
                            FragmentRow(agent_id,
                                        calculate_fragment_value(BaseValue, rarity),
                                        0, 0, 0, 0)
                                @@ DefaultFreshness(now) @@ Taxonomy(category, rarity))
                /\ commit(agents, knowledge_fragments', fragment_purchases)
                /\ call' = Call("create_fragment", Len(knowledge_fragments) + 1, agent_id,
                                NULL, "lastrowid")
                /\ origin' = Append(origin, <<Full, now>>)
                /\ UNCHANGED <<agents, fragment_purchases, rated_at_column, now, sweeper,
                               columns>>

\* ---- Database.get_fragments_in_room -------------------------------------
\* the rows of the query below with an added  AND f.freshness_score > 0
InRoomAndFresh(room_id) ==
    {f \in FragmentIds : /\ room_id = 1 /\ knowledge_fragments[f].agent_id \in AgentIds
                         /\ knowledge_fragments[f].freshness_score > 0}

\* SELECT f.*, a.name, a.emoji FROM knowledge_fragments f JOIN agents a
\*   ON f.agent_id = a.id WHERE f.room_id = ? ORDER BY f.current_value DESC LIMIT ?
\* Every INSERT puts the fragment in room 1.  Rows of equal current_value
\* come in an order SQLite does not fix: the result is any set of the
\* requested size that leaves out no row of a higher value than one it holds.
InRoom(room_id) ==
    {f \in FragmentIds : room_id = 1 /\ knowledge_fragments[f].agent_id \in AgentIds}

get_fragments_in_room(room_id, limit) ==
    /\ \E result \in SUBSET InRoom(room_id) :
          /\ Cardinality(result) = min(limit, Cardinality(InRoom(room_id)))
          /\ \A f \in result, g \in InRoom(room_id) \ result :
                knowledge_fragments[f].current_value >= knowledge_fragments[g].current_value
          /\ call' = [op |-> "get_fragments_in_room", room_id |-> room_id,
                      limit |-> limit, result |-> result]
    /\ UNCHANGED <<agents, knowledge_fragments, fragment_purchases, rated_at_column,
                   disk, now, origin, sweeper, columns>>

\* ---- fragment_migration.migrate_knowledge_fragments ---------------------
\* an UPDATE that sets both columns of every row to their defaults
ResetColumns(row) == [row EXCEPT !.category = CategoryDefault, !.rarity = RarityDefault]

\* the row after ALTER TABLE ... ADD COLUMN for each column the table lacks
AddColumns(row) ==
    [row EXCEPT !.category = IF "category" \in columns THEN @ ELSE CategoryDefault,
                !.rarity = IF "rarity" \in columns THEN @ ELSE RarityDefault]

\* The migration opens a connection of its own.  While the server's
\* connection holds uncommitted writes its ALTER TABLE waits for the lock,
\* gives up (OperationalError: database is locked) and the function returns
\* False; otherwise it adds the missing columns, commits and returns True.
migrate_knowledge_fragments ==
    IF knowledge_fragments # disk.knowledge_fragments
    THEN /\ call' = Call("migrate_knowledge_fragments", 0, 0, NULL, "False")
         /\ UNCHANGED <<agents, knowledge_fragments, fragment_purchases, rated_at_column,
                        disk, now, origin, sweeper, columns>>
    ELSE /\ columns' = columns \cup TaxonomyColumns
         /\ knowledge_fragments' = [f \in FragmentIds |-> AddColumns(knowledge_fragments[f])]
         /\ commit(agents, knowledge_fragments', fragment_purchases)
         /\ call' = Call("migrate_knowledge_fragments", 0, 0, NULL, "True")
         /\ UNCHANGED <<agents, fragment_purchases, rated_at_column, now, origin, sweeper>>

\* ---- the server with its taxonomy and its freshness service -------------
\* The file: the table has any of the two columns; it holds no fragment,
\* or fragments of agent 1 written fresh at hour 0 and decaying at ten times
\* the default rate, Common or Rare where the table has the column, valued
\* as either INSERT values them.
FileRows ==
    {FragmentRow(1, v, 0, 0, 0, 0)
        @@ FreshnessColumns(s, 0, 10 * DEFAULT_DECAY_RATE_PER_HOUR) @@ Taxonomy(c, r) :
        v \in {BaseValue, 2 * BaseValue}, s \in {Full},
        c \in {CategoryDefault, "SCIENTIFIC", NoColumn},
        r \in {RarityDefault, "RARE", NoColumn}}

FileRowFits(row) ==
    /\ row.category = NoColumn <=> "category" \notin columns
    /\ row.rarity = NoColumn <=> "rarity" \notin columns
    /\ row.current_value \in
          {BaseValue, IF row.rarity = NoColumn THEN BaseValue
                      ELSE calculate_fragment_value(BaseValue, row.rarity)}

InitCatalog ==
    /\ columns \in {FreshnessColumnNames \cup present : present \in SUBSET TaxonomyColumns}
    /\ agents = << AgentRow("a1", DefaultInfluence), AgentRow("a2", MaxInfluence),
                   AgentRow("a3", MaxInfluence) >>
    /\ knowledge_fragments \in SeqsUpTo(FileRows, MaxFragments)
    /\ \A f \in FragmentIds : FileRowFits(knowledge_fragments[f])
    /\ fragment_purchases =
          IF knowledge_fragments = <<>> THEN <<>>
          ELSE << PurchaseRow(1, 2, 1, BaseValue, NULL) >>
    /\ rated_at_column = TRUE
    /\ disk = [agents |-> agents, knowledge_fragments |-> knowledge_fragments,
               fragment_purchases |-> fragment_purchases]
    /\ call = Call("__init__", 0, 0, NULL, "None")
    /\ now \in 0..MaxClock
    /\ origin = [f \in FragmentIds |-> Pair(knowledge_fragments[f])]
    /\ sweeper = BackgroundDecayTask

\* draws that give Common, Rare and Legendary
RollInputs == {50 * Percent, 95 * Percent, 100 * Percent - 1}
CategoryInputs == {"", "scientific", "nope"}
LimitInputs == {1, 20}

NextCatalog ==
    \/ create_fragment(1)
    \/ \E category_str \in CategoryInputs, roll \in RollInputs :
          create_fragment_with_rarity(1, category_str, roll)
    \/ migrate_knowledge_fragments
    \/ purchase_fragment(1, 2)
    \/ rate_fragment(1, 2, MaxRating)
    \/ \E f \in 1..(Len(knowledge_fragments) + 1) : apply_decay(f)
    \/ \E f \in 1..(Len(knowledge_fragments) + 1) : get_fragment_with_freshness(f)
    \/ \E f \in 1..(Len(knowledge_fragments) + 1) : refresh_fragment(f, Full)
    \/ batch_update_freshness /\ UNCHANGED sweeper
    \/ \E room_id \in {1, 2}, limit \in LimitInputs : get_fragments_in_room(room_id, limit)

\* The runs are short: the server is started any number of hours after the
\* file was written, and the clock does not reach the next hour in a run.
SpecCatalog == InitCatalog /\ [][NextCatalog]_vars

\* ---- FreshnessService._ensure_schema ------------------------------------
\* what a row holds for a freshness column the table does not have
ABSENT == -3

\* the columns either migration is to leave on knowledge_fragments
TargetColumns == FreshnessColumnNames \cup TaxonomyColumns

\* ALTER TABLE knowledge_fragments ADD COLUMN freshness_score REAL DEFAULT 1.0
AddFreshnessScore(row) ==
    [row EXCEPT !.freshness_score = IF "freshness_score" \in columns THEN @ ELSE Full]

\* ADD COLUMN last_decay_check TIMESTAMP DEFAULT CURRENT_TIMESTAMP: SQLite
\* refuses a non-constant default on a table that has rows
RefusesTimestamp == "last_decay_check" \notin columns /\ knowledge_fragments # <<>>

\* ADD COLUMN decay_rate_per_hour REAL DEFAULT ?: SQLite refuses a bound
\* parameter in a column default (near "?": syntax error)
RefusesRate == "decay_rate_per_hour" \notin columns

\* PRAGMA table_info once, then one ALTER TABLE per missing column in this
\* order, then commit.  The ALTER that is refused raises OperationalError out
\* of the constructor; the columns added before it stay.  Outside a
\* transaction each ALTER is committed as it runs; inside one they stay
\* pending with the connection's other writes.
_ensure_schema ==
    LET with_score == columns \cup {"freshness_score"}
        with_timestamp == with_score \cup {"last_decay_check"}
        raises == RefusesTimestamp \/ RefusesRate
    IN  /\ columns' = IF RefusesTimestamp THEN with_score ELSE with_timestamp
        /\ knowledge_fragments' =
              [f \in FragmentIds |-> AddFreshnessScore(knowledge_fragments[f])]
        /\ IF raises /\ knowledge_fragments # disk.knowledge_fragments
           THEN UNCHANGED disk
           ELSE commit(agents, knowledge_fragments', fragment_purchases)
        /\ call' = Call("_ensure_schema", 0, 0, NULL,
                        IF raises THEN "OperationalError" ELSE "None")
        /\ UNCHANGED <<agents, fragment_purchases, rated_at_column, now, origin, sweeper>>

\* ---- the two migrations over a file with any of the target columns ------
\* a row of agent 1, never bought, with a value in each column the table has
MigrationFileRows ==
    {FragmentRow(1, BaseValue, 0, 0, 0, 0) @@ FreshnessColumns(s, w, r) @@ Taxonomy(c, k) :
        s \in {Full \div 2, Full, ABSENT}, w \in {0, ABSENT},
        r \in {10 * DEFAULT_DECAY_RATE_PER_HOUR, ABSENT},
        c \in {"SCIENTIFIC", NoColumn}, k \in {"RARE", NoColumn}}

MigrationRowFits(row) ==
    /\ \A c \in FreshnessColumnNames : row[c] = ABSENT <=> c \notin columns
    /\ \A c \in TaxonomyColumns : row[c] = NoColumn <=> c \notin columns

InitMigration ==
    /\ columns \in SUBSET TargetColumns
    /\ agents = << AgentRow("a1", DefaultInfluence) >>
    /\ knowledge_fragments \in SeqsUpTo(MigrationFileRows, MaxFragments)
    /\ \A f \in FragmentIds : MigrationRowFits(knowledge_fragments[f])
    /\ fragment_purchases = <<>>
    /\ rated_at_column = TRUE
    /\ disk = [agents |-> agents, knowledge_fragments |-> knowledge_fragments,
               fragment_purchases |-> fragment_purchases]
    /\ call = Call("connect", 0, 0, NULL, "None")
    /\ now = 0
    /\ origin = [f \in FragmentIds |-> Pair(knowledge_fragments[f])]
    /\ sweeper = BackgroundDecayTask

NextMigration ==
    \/ _ensure_schema
    \/ migrate_knowledge_fragments

SpecMigration == InitMigration /\ [][NextMigration]_vars

\* ======================================================================
\* The claims
\* ======================================================================

\* What purchase_fragment returns on its three refusals (the 'error' of
\* the dict it returns) and on success.
FragmentNotFound == "Fragment not found"
SelfPurchase == "Cannot purchase your own fragment"
InsufficientFunds == "Insufficient influence"
Success == "success"

IsPurchase(c, f, b) == c.op = "purchase_fragment" /\ c.fragment_id = f /\ c.buyer_id = b

StoreUnchanged == UNCHANGED <<agents, knowledge_fragments, fragment_purchases, disk>>

\* C1: a purchase(f, b) whose seller is not b and whose price v is within
\* b's balance succeeds, returns cost v and new balance balance(b) - v,
\* moves v from b to the seller, adds 1 to f.purchase_count and v to
\* f.total_value_earned, and appends one unrated Purchase row (f, b, s, v, v).
\* (The agents table of _init_schema has no influence_earned column; the
\* statement below leaves that conjunct out, so it is implied by the claim.)
C1_PurchaseEffects ==
    [][\A f \in FragmentIds, b \in AgentIds :
        LET v == knowledge_fragments[f].current_value
            s == knowledge_fragments[f].agent_id
        IN  (IsPurchase(call', f, b) /\ s # b /\ v <= agents[b].influence)
            => /\ call'.result = Success
               /\ call'.cost = v
               /\ call'.new_influence = agents[b].influence - v
               /\ agents' = [agents EXCEPT ![b].influence = @ - v, ![s].influence = @ + v]
               /\ knowledge_fragments'[f].purchase_count =
                    knowledge_fragments[f].purchase_count + 1
               /\ knowledge_fragments'[f].total_value_earned =
                    knowledge_fragments[f].total_value_earned + v
               /\ fragment_purchases' =
                    Append(fragment_purchases, PurchaseRow(f, b, s, v, NULL))
               /\ disk'.fragment_purchases = fragment_purchases'
      ]_vars

\* C5: two different buyers, each holding exactly the price of f, attempt
\* to purchase f one right after the other (the handlers do not interleave):
\* not both succeed, whichever of the two does not succeed returns
\* InsufficientFunds or a conflict outcome, and the seller gains at most the
\* price once.  `call` is the first attempt, `call'` the second; the state
\* between them shows the balances and price before the first attempt
\* (a first attempt that succeeded took call.cost from the first buyer).
C5_AtMostOneWins ==
    [][\A f \in FragmentIds, b1 \in AgentIds, b2 \in AgentIds :
        LET s == knowledge_fragments[f].agent_id
            won == call.result = Success
            price == IF won THEN call.cost ELSE knowledge_fragments[f].current_value
            held1 == agents[b1].influence + (IF won THEN call.cost ELSE 0)
            seller0 == agents[s].influence - (IF won THEN call.cost ELSE 0)
        IN  ( /\ b1 # b2 /\ s # b1 /\ s # b2
              /\ IsPurchase(call, f, b1) /\ IsPurchase(call', f, b2)
              /\ held1 = price /\ agents[b2].influence = price )
            => /\ ~(won /\ call'.result = Success)
               /\ call.result \in {Success, InsufficientFunds, "Conflict"}
               /\ call'.result \in {Success, InsufficientFunds, "Conflict"}
               /\ agents'[s].influence <= seller0 + price
      ]_vars

\* C6: purchase(f, b) by the owner of f returns the SelfPurchase failure,
\* whatever b's balance, and leaves every balance, every fragment field
\* and the ledger unchanged.
C6_SelfPurchase ==
    [][\A f \in FragmentIds, b \in AgentIds :
        (IsPurchase(call', f, b) /\ knowledge_fragments[f].agent_id = b)
        => (call'.result = SelfPurchase /\ StoreUnchanged)
      ]_vars

\* C7: purchase(f, b) by a non-owner whose balance is below f.current_value
\* returns the InsufficientFunds failure and changes nothing; a balance
\* equal to the price is not refused for insufficient funds.
C7_InsufficientFunds ==
    [][\A f \in FragmentIds, b \in AgentIds :
        LET v == knowledge_fragments[f].current_value
        IN  (IsPurchase(call', f, b) /\ knowledge_fragments[f].agent_id # b)
            => /\ agents[b].influence < v
                    => (call'.result = InsufficientFunds /\ StoreUnchanged)
               /\ agents[b].influence = v => call'.result # InsufficientFunds
      ]_vars

\* C8: purchase of a fragment id that does not exist returns the
\* FragmentNotFound failure (a returned outcome, not a raised exception)
\* and changes nothing.
C8_FragmentNotFound ==
    [][(call'.op = "purchase_fragment" /\ call'.fragment_id \notin FragmentIds)
        => (call'.result = FragmentNotFound /\ StoreUnchanged)
      ]_vars

\* C9: rate(f, b, r) returns False (its one failure outcome, "no purchase
\* found") and changes nothing, in the connection and on disk, whenever b
\* has no Purchase row for f whose rating is null: when b never purchased
\* f, and when every purchase of f by b is already rated.
C9_NoEligiblePurchase ==
    [][( /\ call'.op = "rate_fragment"
         /\ ~ \E i \in PurchaseIds :
                /\ fragment_purchases[i].fragment_id = call'.fragment_id
                /\ fragment_purchases[i].buyer_id = call'.buyer_id
                /\ fragment_purchases[i].rating = NULL )
        => (call'.result = "False" /\ StoreUnchanged)
      ]_vars

\* C9's case: the last call is a rate by a buyer whose purchase was rated
\* by an earlier rate call of this run (the file's rated rows carry 3, the
\* calls give the values of RatingInputs), and it returned False.
C9_Witness ==
    /\ call.op = "rate_fragment"
    /\ call.result = "False"
    /\ \E i \in PurchaseIds :
        /\ fragment_purchases[i].fragment_id = call.fragment_id
        /\ fragment_purchases[i].buyer_id = call.buyer_id
        /\ fragment_purchases[i].rating \in RatingInputs

\* C10: a Purchase row's rating changes at most once, from null to a value
\* in 1..5: a rating that is set is never overwritten.
C10_RatingWrittenOnce ==
    [][\A i \in PurchaseIds :
        /\ fragment_purchases[i].rating # NULL
             => fragment_purchases'[i].rating = fragment_purchases[i].rating
        /\ fragment_purchases'[i].rating # fragment_purchases[i].rating
             => fragment_purchases'[i].rating \in MinRating..MaxRating
      ]_vars

\* C11: rate(f, b, r) with r outside 1..5, by a buyer who holds an unrated
\* Purchase of f, returns the InvalidRating failure as a structured outcome
\* (a returned value, not a raised exception) and leaves the Purchase rows
\* and the fragment's rating_sum and rating_count unchanged.
C11_InvalidRating ==
    [][( /\ call'.op = "rate_fragment"
         /\ call'.rating \notin MinRating..MaxRating
         /\ \E i \in PurchaseIds :
                /\ fragment_purchases[i].fragment_id = call'.fragment_id
                /\ fragment_purchases[i].buyer_id = call'.buyer_id
                /\ fragment_purchases[i].rating = NULL )
        => /\ call'.result = "InvalidRating"
           /\ fragment_purchases' = fragment_purchases
           /\ knowledge_fragments' = knowledge_fragments
      ]_vars

\* clamp(x, 0, 1) on the scale of the model
Clamp(x) == IF x < 0 THEN 0 ELSE IF x > Full THEN Full ELSE x

\* C12: a fragment's purchase_count and total_value_earned never decrease,
\* and they change only in a successful purchase: rate, apply_decay,
\* refresh_fragment, batch_update_freshness and every failed purchase leave
\* both as they were.
C12_CountersFrame ==
    [][\A f \in FragmentIds :
        LET old == knowledge_fragments[f]
            new == knowledge_fragments'[f]
        IN  /\ new.purchase_count >= old.purchase_count
            /\ new.total_value_earned >= old.total_value_earned
            /\ (new.purchase_count # old.purchase_count
                \/ new.total_value_earned # old.total_value_earned)
               => (call'.op = "purchase_fragment" /\ call'.result = Success)
      ]_vars

\* C12's case: fragment 1, bought once at the base price, has since been
\* rated (rate_fragment), refreshed below zero (refresh_fragment) at a later
\* hour, and the last call is a purchase that failed; its counters are those
\* of the one purchase.
C12_Witness ==
    /\ Len(knowledge_fragments) >= 1
    /\ call.op = "purchase_fragment"
    /\ call.result # Success
    /\ now > 0
    /\ knowledge_fragments[1].rating_count = 1
    /\ knowledge_fragments[1].freshness_score < 0
    /\ knowledge_fragments[1].last_decay_check = now
    /\ knowledge_fragments[1].purchase_count = 1
    /\ knowledge_fragments[1].total_value_earned = BaseValue

\* C13: in every state reachable by create, apply_decay, refresh_fragment
\* with any amount and batch_update_freshness, every fragment's
\* freshness_score that is set lies in 0.0 .. 1.0.
C13_ScoreInRange ==
    \A f \in FragmentIds :
        \/ knowledge_fragments[f].freshness_score = NULL
        \/ knowledge_fragments[f].freshness_score \in 0..Full

C15_CalculateIsClamp ==
    ( /\ call.op = "calculate_current_freshness"
      /\ call.current_score \in 0..Full
      /\ call.current_time >= call.last_check
      /\ call.decay_rate_per_hour >= 0 )
    => call.result = Clamp(call.current_score
                           - (call.current_time - call.last_check) * call.decay_rate_per_hour)

\* C15's case: a score of 0.5 after two hours at ten times the default rate
\* (0.5 - 1.0 is below 0): the result is 0.
C15_Witness ==
    /\ call.op = "calculate_current_freshness"
    /\ call.current_score = Full \div 2
    /\ call.current_time - call.last_check = 2
    /\ call.decay_rate_per_hour = 10 * DEFAULT_DECAY_RATE_PER_HOUR
    /\ call.result = 0

\* C16: when calculate_current_freshness is called with a current_time
\* earlier than last_check, the score it returns is not greater than the
\* current score passed in.
C16_NoGainFromNegativeElapsed ==
    ( /\ call.op = "calculate_current_freshness"
      /\ call.current_time < call.last_check )
    => call.result <= call.current_score

\* C17: apply_decay and batch_update_freshness never fail on a fragment whose
\* last_decay_check is NULL or unusable: they take the elapsed time as zero,
\* leave the score as it was (an unset score counting as the 1.0 it is read
\* as) and complete normally.
C17_ToleratesBadTimestamps ==
    [][now' = now =>
        /\ \A f \in FragmentIds :
            ( /\ call'.op = "apply_decay"
              /\ call'.fragment_id = f
              /\ knowledge_fragments[f].last_decay_check \in {NULL, MALFORMED} )
            => /\ call'.result = "dict"
               /\ ScoreOr(knowledge_fragments'[f].freshness_score)
                    = ScoreOr(knowledge_fragments[f].freshness_score)
        /\ call'.op = "batch_update_freshness"
            => /\ call'.result = "dict"
               /\ \A f \in FragmentIds :
                    knowledge_fragments[f].last_decay_check \in {NULL, MALFORMED}
                    => ScoreOr(knowledge_fragments'[f].freshness_score)
                         = ScoreOr(knowledge_fragments[f].freshness_score)
      ]_vars

\* C18: apply_decay is idempotent at a fixed instant: when apply_decay(f)
\* has just completed at this hour (the last call is that call and f's
\* watermark is the present hour) and apply_decay(f) is called again with
\* no time elapsing, the persisted freshness_score stays what the first
\* call left.
C18_Idempotent ==
    [][\A f \in FragmentIds :
        ( /\ call.op = "apply_decay" /\ call.fragment_id = f /\ call.result = "dict"
          /\ knowledge_fragments[f].last_decay_check = now
          /\ call'.op = "apply_decay" /\ call'.fragment_id = f
          /\ now' = now )
        => /\ call'.result = "dict"
           /\ knowledge_fragments'[f].freshness_score = knowledge_fragments[f].freshness_score
      ]_vars

\* C18's case: the last call is an apply_decay that read a watermark equal
\* to the present hour, one or more hours into the run (so a recomputation
\* at this same hour came before it), on a fragment that has decayed from
\* the score it was found with to a score strictly between 0 and 1.
C18_Witness ==
    \E f \in FragmentIds :
        /\ call.op = "apply_decay"
        /\ call.fragment_id = f
        /\ call.result = "dict"
        /\ now > 0
        /\ call.last_check_str = now
        /\ origin[f][1] \in 1..Full
        /\ knowledge_fragments[f].freshness_score \in 1..(origin[f][1] - 1)
        /\ knowledge_fragments[f].freshness_score = call.freshness_score

C20_BatchCounts ==
    [][(call'.op = "batch_update_freshness" /\ now' = now) =>
        LET qualifying == {f \in FragmentIds :
                             \/ knowledge_fragments[f].freshness_score = NULL
                             \/ knowledge_fragments[f].freshness_score > 0}
            Decayed(row) ==
                LET s == IF row.freshness_score = NULL THEN Full ELSE row.freshness_score
                    h == IF row.last_decay_check = NULL THEN 0 ELSE now - row.last_decay_check
                    r == IF row.decay_rate_per_hour = NULL
                         THEN DEFAULT_DECAY_RATE_PER_HOUR ELSE row.decay_rate_per_hour
                IN  Clamp(s - h * r)
        IN  /\ \A f \in qualifying :
                /\ knowledge_fragments'[f].freshness_score = Decayed(knowledge_fragments[f])
                /\ knowledge_fragments'[f].last_decay_check = now
            /\ \A f \in FragmentIds \ qualifying :
                knowledge_fragments'[f] = knowledge_fragments[f]
            /\ call'.result = "dict"
            /\ call'.updated = Cardinality(qualifying)
            /\ call'.fully_decayed =
                 Cardinality({f \in qualifying : knowledge_fragments'[f].freshness_score = 0})
            /\ qualifying = {} => (call'.updated = 0 /\ call'.fully_decayed = 0)
      ]_vars

\* C20's case: the last call is a sweep, one or more hours into the run,
\* that processed one fragment and counted it fully decayed (it is at 0 with
\* the present hour as its watermark), while another fragment, at 0 before,
\* still carries its earlier watermark.
C20_Witness ==
    /\ call.op = "batch_update_freshness"
    /\ call.updated = 1
    /\ call.fully_decayed = 1
    /\ \E f \in FragmentIds, g \in FragmentIds :
        /\ f # g
        /\ origin[f][1] # 0
        /\ knowledge_fragments[f].freshness_score = 0
        /\ knowledge_fragments[f].last_decay_check = now
        /\ origin[g] = <<0, 0>>
        /\ knowledge_fragments[g].freshness_score = 0
        /\ knowledge_fragments[g].last_decay_check = 0
        /\ now > 0

\* C20's other case: a sweep over a table with no qualifying fragment (two
\* fragments at 0) returned zeros.
C20_WitnessNone ==
    /\ call.op = "batch_update_freshness"
    /\ call.updated = 0
    /\ call.fully_decayed = 0
    /\ Len(knowledge_fragments) = 2

\* ---- the sweeper ---------------------------------------------------------
\* task i is not in its loop: never created, cancelled or returned
NotLooping(i) == i > Len(sweeper.tasks) \/ sweeper.tasks[i] \notin Live

\* C21: a task of the sweeper leaves its loop only when a stop was requested
\* (self.running is False), never because a cycle's batch update raised; and
\* as long as it is in the loop it is again and again suspended in the sleep
\* of one normal interval and again and again resumed for the next cycle,
\* whatever the cycles raised.
C21_LoopSurvivesFailures ==
    /\ [][\A i \in 1..Len(sweeper.tasks) :
            (sweeper.tasks[i] \in Live /\ sweeper'.tasks[i] \notin Live)
                => ~sweeper'.running]_vars
    /\ \A i \in 1..MaxTasks :
          /\ []<>(NotLooping(i) \/ (/\ sweeper.tasks[i] = "sleeping"
                                    /\ sweeper.sleep = BACKGROUND_INTERVAL_MINUTES * 60))
          /\ []<>(NotLooping(i) \/ sweeper.tasks[i] = "scheduled")

\* a cycle failed, the task slept the interval and is resumed for the next
C21_Witness ==
    /\ sweeper.running
    /\ call.op = "batch_update_freshness" /\ call.result \in Errors
    /\ sweeper.task # 0 /\ sweeper.tasks[sweeper.task] = "scheduled"
    /\ sweeper.sleep = BACKGROUND_INTERVAL_MINUTES * 60

\* stop() was called and has returned, and no start() followed it
Stopped == ~sweeper.running /\ sweeper.awaited = 0

\* C22: once stop() has returned, the connection holds no freshness write of
\* a batch update that is not committed: what the connection sees of
\* knowledge_fragments is what the file holds.
C22_NoPartialBatchAfterStop ==
    Stopped => knowledge_fragments = disk.knowledge_fragments

\* C23: a cycle whose batch update fails with a storage failure the code
\* cannot recover from (sqlite3.DatabaseError) ends the loop of the task that
\* ran it, so that its owner sees the task done with the failure; the task
\* is not put to sleep for another cycle.
C23_FatalFailureStopsLoop ==
    [][\A i \in 1..Len(sweeper.tasks) :
          (/\ sweeper.running
           /\ sweeper.tasks[i] = "scheduled"
           /\ sweeper'.tasks[i] # "scheduled"
           /\ call'.op = "batch_update_freshness"
           /\ call'.result = "DatabaseError")
              => sweeper'.tasks[i] \notin Live]_vars

\* ---- hours_until_decay ---------------------------------------------------
IsZeroHours(h) == h.num = 0 /\ h.den > 0
IsQuotient(h, num, den) == h.den > 0 /\ h.num * den = num * h.den

\* C24, as stated: hours_until_decay(s, r, target) is (s - target) / r when
\* r > 0 and s > target, is 0 whenever s <= target, and is +infinity when
\* r <= 0.
C24_HoursUntilDecay ==
    call.op = "hours_until_decay" =>
        LET s == call.current_score
            r == call.decay_rate_per_hour
            target == call.target_score
        IN  /\ (r > 0 /\ s > target) => IsQuotient(call.result, s - target, r)
            /\ (s <= target) => IsZeroHours(call.result)
            /\ (r <= 0) => call.result = INF

\* C24, amended: hours_until_decay(s, r, target) is +infinity when r <= 0,
\* whatever s is; when r > 0 it is 0 if s <= target and (s - target) / r,
\* the number whose product with r is s - target, if s > target.
C24_HoursUntilDecayRateFirst ==
    call.op = "hours_until_decay" =>
        LET s == call.current_score
            r == call.decay_rate_per_hour
            target == call.target_score
        IN  /\ (r > 0 /\ s > target) => IsQuotient(call.result, s - target, r)
            /\ (r > 0 /\ s <= target) => IsZeroHours(call.result)
            /\ (r <= 0) => call.result = INF

\* a score at or below the target with a rate that is not positive
C24_Witness ==
    /\ call.op = "hours_until_decay"
    /\ call.current_score <= call.target_score
    /\ call.decay_rate_per_hour <= 0
    /\ call.result = INF

\* 0.95 at ten times the default rate: 1.9 hours
C24_WitnessQuotient ==
    /\ call.op = "hours_until_decay"
    /\ call.current_score = Full - (Full \div 20)
    /\ call.target_score = 0
    /\ call.decay_rate_per_hour = 10 * DEFAULT_DECAY_RATE_PER_HOUR
    /\ call.result.num * 10 = 19 * call.result.den

\* ---- the rarity draw -----------------------------------------------------
RECURSIVE Cumulative(_)
Cumulative(k) == IF k = 0 THEN 0 ELSE Cumulative(k - 1) + drop_rate_percent(Rarity[k])

\* C30: the cumulative drop rates of Common, Uncommon, Rare, Epic, Legendary
\* are 50, 80, 95, 99 and 100; for every draw in [0, 100) the sampler returns
\* the first tier in that order whose cumulative rate is at or above the
\* draw, and it returns it from inside the walk, never from the fallback
\* after it.
C30_FirstTierMeetingDraw ==
    /\ [k \in 1..Len(Rarity) |-> Cumulative(k)]
          = << 50 * Percent, 80 * Percent, 95 * Percent, 99 * Percent, 100 * Percent >>
    /\ call.op = "get_random_rarity" =>
          /\ call.exit = "loop"
          /\ \E k \in 1..Len(Rarity) :
                /\ call.result = Rarity[k]
                /\ Cumulative(k) >= call.roll
                /\ \A j \in 1..(k - 1) : Cumulative(j) < call.roll

\* a draw of exactly 50.0 is Common, the next draw above it Uncommon
C30_Witness ==
    /\ call.op = "get_random_rarity"
    /\ call.roll = 50 * Percent
    /\ call.result = "COMMON"

C30_WitnessLegendary ==
    /\ call.op = "get_random_rarity"
    /\ call.roll = 100 * Percent - 1
    /\ call.result = "LEGENDARY"

\* ---- creation and the taxonomy -------------------------------------------
\* C25: a step that inserts a fragment inserts it with base_value 1,
\* current_value 1, purchase_count 0, total_value_earned 0 and
\* freshness_score 1.0, whatever rarity it is given.
C25_CreatedValues ==
    [][Len(knowledge_fragments') = Len(knowledge_fragments) + 1 =>
          LET row == knowledge_fragments'[Len(knowledge_fragments')]
          IN  /\ row.base_value = 1
              /\ row.current_value = 1
              /\ row.purchase_count = 0
              /\ row.total_value_earned = 0
              /\ row.freshness_score = Full]_vars

\* C26: no step changes the rarity or the category a fragment has, in what
\* the connection sees or in the file: not a purchase, a rating, a decay, a
\* refresh, a sweep, nor a migration run on a table that has the columns.
\* (A column the table lacks holds nothing that could change.)
C26_TaxonomyWriteOnce ==
    [][/\ Len(knowledge_fragments') >= Len(knowledge_fragments)
       /\ Len(disk'.knowledge_fragments) >= Len(disk.knowledge_fragments)
       /\ \A f \in FragmentIds :
             /\ knowledge_fragments[f].rarity # NoColumn =>
                   knowledge_fragments'[f].rarity = knowledge_fragments[f].rarity
             /\ knowledge_fragments[f].category # NoColumn =>
                   knowledge_fragments'[f].category = knowledge_fragments[f].category
       /\ \A f \in 1..Len(disk.knowledge_fragments) :
             /\ disk.knowledge_fragments[f].rarity # NoColumn =>
                   disk'.knowledge_fragments[f].rarity = disk.knowledge_fragments[f].rarity
             /\ disk.knowledge_fragments[f].category # NoColumn =>
                   disk'.knowledge_fragments[f].category = disk.knowledge_fragments[f].category]_vars

\* a Rare, Scientific fragment that was rated, has decayed, and has seen the
\* migration run again
C26_Witness ==
    /\ call.op = "migrate_knowledge_fragments" /\ call.result = "True"
    /\ Len(knowledge_fragments) >= 1
    /\ knowledge_fragments[1].rarity = "RARE"
    /\ knowledge_fragments[1].category = "SCIENTIFIC"
    /\ knowledge_fragments[1].rating_count > 0
    /\ knowledge_fragments[1].freshness_score < Full
    /\ knowledge_fragments[1].last_decay_check > 0

\* the fields of a ledger row that are written once
Receipt(row) ==
    <<row.fragment_id, row.buyer_id, row.seller_id, row.influence_amount,
      row.fragment_value_at_purchase>>

\* C27: no step removes a fragment or a ledger row, or changes the fragment,
\* buyer, seller, amount or price of a ledger row, in what the connection
\* sees or in the file; and a read of a fragment whose freshness is 0 after
\* the read returns it: get_fragment_with_freshness returns its dict, and
\* get_fragments_in_room returns it whenever fewer fragments than the limit
\* are valued at least as high in its room.
C27_NothingRemoved ==
    [][/\ Len(knowledge_fragments') >= Len(knowledge_fragments)
       /\ Len(disk'.knowledge_fragments) >= Len(disk.knowledge_fragments)
       /\ Len(fragment_purchases') >= Len(fragment_purchases)
       /\ Len(disk'.fragment_purchases) >= Len(disk.fragment_purchases)
       /\ \A i \in PurchaseIds :
             Receipt(fragment_purchases'[i]) = Receipt(fragment_purchases[i])
       /\ \A i \in 1..Len(disk.fragment_purchases) :
             Receipt(disk'.fragment_purchases[i]) = Receipt(disk.fragment_purchases[i])
       /\ (call'.op = "get_fragment_with_freshness" /\ now' = now
           /\ call'.fragment_id \in FragmentIds
           /\ knowledge_fragments'[call'.fragment_id].freshness_score = 0)
             => call'.result = "dict"
       /\ (call'.op = "get_fragments_in_room" /\ now' = now /\ call'.room_id = 1)
             => \A f \in FragmentIds :
                   (/\ knowledge_fragments[f].freshness_score = 0
                    /\ Cardinality({g \in FragmentIds \ {f} :
                          knowledge_fragments[g].current_value
                              >= knowledge_fragments[f].current_value}) < call'.limit)
                      => f \in call'.result]_vars

\* a fragment that was fresh and has decayed to 0 was read by
\* get_fragment_with_freshness, and its ledger row was rated
C27_Witness ==
    /\ call.op = "get_fragment_with_freshness" /\ call.result = "dict"
    /\ call.fragment_id \in FragmentIds
    /\ knowledge_fragments[call.fragment_id].freshness_score = 0
    /\ origin[call.fragment_id][1] = Full
    /\ Len(fragment_purchases) >= 1 /\ fragment_purchases[1].rating # NULL

\* a fragment at freshness 0 was listed
C27_WitnessListed ==
    /\ call.op = "get_fragments_in_room"
    /\ \E f \in FragmentIds :
          f \in call.result /\ knowledge_fragments[f].freshness_score = 0

\* ---- value ---------------------------------------------------------------
\* C28: whatever creations and purchase calls were made, every fragment's
\* current_value is at least its base_value, in what the connection sees
\* and in the file.
C28_ValueAtLeastBase ==
    /\ \A f \in FragmentIds :
          knowledge_fragments[f].current_value >= knowledge_fragments[f].base_value
    /\ \A f \in 1..Len(disk.knowledge_fragments) :
          disk.knowledge_fragments[f].current_value >= disk.knowledge_fragments[f].base_value

\* a fragment created Legendary in this run, and a purchase of it attempted
C28_Witness ==
    /\ call.op = "purchase_fragment"
    /\ Len(knowledge_fragments) >= 1
    /\ knowledge_fragments[1].rarity = "LEGENDARY"
    /\ knowledge_fragments[1].current_value = 10 * knowledge_fragments[1].base_value

\* ---- C31 ----------------------------------------------------------------
Migrations == {"_ensure_schema", "migrate_knowledge_fragments"}

Targets(op) == IF op = "_ensure_schema" THEN FreshnessColumnNames ELSE TaxonomyColumns

\* the columns of a row that a migration is not to touch: those no migration
\* adds, and the target columns the table had
Kept(row) == {c \in DOMAIN row : c \notin TargetColumns \/ c \in columns}

\* C31: a run of either migration, from any subset of the target columns,
\* leaves all of its target columns present, removes no column and no row,
\* leaves every row its value in every column the table had, and a run
\* that follows a run of the same migration changes nothing.
C31_MigrationsAdditiveIdempotent ==
    [][call'.op \in Migrations =>
          /\ Targets(call'.op) \subseteq columns'
          /\ columns \subseteq columns'
          /\ Len(knowledge_fragments') = Len(knowledge_fragments)
          /\ \A f \in FragmentIds : \A c \in Kept(knowledge_fragments[f]) :
                knowledge_fragments'[f][c] = knowledge_fragments[f][c]
          /\ call.op = call'.op =>
                columns' = columns /\ knowledge_fragments' = knowledge_fragments]_vars

\* ---- C33 ----------------------------------------------------------------
\* the Purchase rows of one fragment
PurchasesOf(fragment_id) ==
    SelectSeq(fragment_purchases, LAMBDA row : row.fragment_id = fragment_id)

\* C33: in every reachable state each fragment's rating_count equals the
\* number of its Purchase rows with a non-null rating, and its rating_sum
\* equals the sum of those rows' ratings.
C33_RatingAggregates ==
    \A f \in FragmentIds :
        /\ knowledge_fragments[f].rating_count = Len(Rated(PurchasesOf(f)))
        /\ knowledge_fragments[f].rating_sum = SumRating(PurchasesOf(f))

\* ---- C36, C37 -----------------------------------------------------------
\* the tasks of the object that are in the loop of _run
LoopsAlive == {i \in 1..Len(sweeper.tasks) : sweeper.tasks[i] \in Live}

\* C36: under any sequence of start() and stop() calls on one
\* BackgroundDecayTask, at most one sweeper loop is alive at any time.
C36_AtMostOneLoop == Cardinality(LoopsAlive) <= 1

\* task i runs a cycle in this step: it calls batch_update_freshness and
\* goes to sleep
Sweeps(i) == sweeper.tasks[i] = "scheduled" /\ sweeper'.tasks[i] = "sleeping"

\* stop() is called in a state where it has nothing to wait for: before any
\* start(), or after the task it made is done
NothingToStop == sweeper.task = 0 \/ sweeper.tasks[sweeper.task] \notin Live

\* C37: once stop() has returned and until start() is called again, no task
\* of the object begins a batch update; and a stop() called before any
\* start(), or again after a stop(), returns None at once, raising nothing
\* and leaving every task as it was.
C37_NoSweepAfterStop ==
    [][/\ Stopped => \A i \in 1..Len(sweeper.tasks) : ~Sweeps(i)
       /\ (/\ call'.op = "stop" /\ ~sweeper'.running
           /\ call' # call \/ sweeper.running
           /\ sweeper.awaited = 0 /\ NothingToStop)
             => /\ call'.result = "None"
                /\ sweeper'.awaited = 0
                /\ sweeper'.tasks = sweeper.tasks]_vars

\* two loops were started, stop() cancelled the second and has returned, and
\* the first, resumed from its sleep, has ended without a sweep
C37_Witness ==
    /\ Stopped
    /\ call.op = "stop" /\ call.result = "None"
    /\ Len(sweeper.tasks) = 2
    /\ sweeper.tasks[1] = "finished"
    /\ sweeper.tasks[2] = "cancelled"

\* stop() was called on an object that was never started, and returned
C37_WitnessNeverStarted ==
    /\ call.op = "stop" /\ call.result = "None"
    /\ sweeper.task = 0
    /\ sweeper.tasks = <<>>

\* ---- C38 ----------------------------------------------------------------
\* The connection holds a write of fragment f that is not committed.  Every
\* call but a batch update that raised commits what it writes, so such a
\* write was issued by a sweep that raised at a later fragment.
PendingWrite(f) == knowledge_fragments[f] # disk.knowledge_fragments[f]

\* the call of this step is one that writes fragment f itself
WritesFragment(f) == call'.op = "batch_update_freshness" \/ call'.fragment_id = f

\* C38: a freshness write that a batch update issued before it raised is
\* never persisted: no call on another fragment (a later apply_decay or
\* refresh_fragment or purchase that commits on the same connection
\* included) makes the pending row the committed one.
C38_BatchAllOrNothing ==
    [][\A f \in FragmentIds :
          (PendingWrite(f) /\ ~WritesFragment(f))
              => disk'.knowledge_fragments[f] # knowledge_fragments[f]]_vars
\* ---- C39 ----------------------------------------------------------------
\* the rate the claim has a row decay at: its own, the default when unset
StoredRateOrDefault(row) ==
    IF row.decay_rate_per_hour = NULL THEN DEFAULT_DECAY_RATE_PER_HOUR
    ELSE row.decay_rate_per_hour

\* the call of this step is an apply_decay or a sweep that rewrote fragment f
Decays(f) ==
    /\ now' = now
    /\ call'.result = "dict"
    /\ \/ call'.op = "apply_decay" /\ call'.fragment_id = f
       \/ call'.op = "batch_update_freshness" /\ SelectDecaying(knowledge_fragments[f])

\* C39: apply_decay and batch_update_freshness decay each fragment at its
\* own stored decay_rate_per_hour, at the default only when the stored rate
\* is unset; a fragment whose stored rate is 0 keeps its freshness_score
\* however much time has elapsed.
C39_DecaysAtStoredRate ==
    [][\A f \in FragmentIds :
          Decays(f) =>
            LET row == knowledge_fragments[f]
            IN  /\ knowledge_fragments'[f].freshness_score =
                      calculate_current_freshness(LastCheck(row.last_decay_check, now), now,
                                                  StoredRateOrDefault(row),
                                                  ScoreOr(row.freshness_score))
                /\ row.decay_rate_per_hour = 0 =>
                      knowledge_fragments'[f].freshness_score = row.freshness_score]_vars
====
